---- MODULE Spec2Model ----
(***************************************************************************)
(* Asynchronous job lifecycle of the Spectra API: the job store            *)
(* (api/job_queue.py: network hash store with in-process fallback) and     *)
(* the request handlers that drive it (api/index.py: generate_devops,      *)
(* get_job_status, process_job, get_llm_response).                         *)
(*                                                                         *)
(* Several server processes (serverless instances) share one network       *)
(* store; each has its own in-process mapping and its own lazily           *)
(* initialised client.  Inside one process the handlers are coroutines of  *)
(* one event loop: code between two awaits runs without interleaving with  *)
(* other handlers of that process, but store commands of other processes   *)
(* may land between two store commands of this one.                        *)
(***************************************************************************)
EXTENDS Integers, FiniteSets, Sequences, TLC

\* ---------------------------------------------------------------- bounds
MaxJobs == 2
MaxCalls == 2
MaxProcs == 2
MaxInvocations == 2
MaxFaults == 1
MaxConnections == 2
MaxThreads == 2
MaxOps == 2

JobIds == 1..MaxJobs
Calls == 1..MaxCalls
Procs == 1..MaxProcs
Threads == 1..MaxThreads

\* ---------------------------------------------------------------- values
None == [kind |-> "None"]
EmptyDict == [kind |-> "dict"]
Str(s) == [kind |-> "str", s |-> s]

Stacks == {"python", "Python", "custom"}
Context(stack) == [kind |-> "dict", stack |-> stack, files |-> "a.py"]
Contexts == {Context(s) : s \in Stacks}

Lower(s) == IF s = "Python" THEN "python" ELSE s

TEMPLATES == {"python", "nodejs", "golang", "rust", "java_maven", "java_gradle"}

Template(key) == [kind |-> "dict", dockerfile |-> key, compose |-> key, github_action |-> key]

\* a lookup that forgets to fold the case of the stack name
get_template_exact(stack) == IF stack \in TEMPLATES THEN Template(stack) ELSE None

get_template(stack) == IF Lower(stack) \in TEMPLATES THEN Template(Lower(stack)) ELSE None

DevOpsFiles(d) == [kind |-> "dict", dockerfile |-> d, compose |-> "", github_action |-> ""]

\* json.dumps / json.loads: the text of a value, and the value of a text
JsonDumps(v) == [json |-> v]
JsonLoads(t) == t.json

\* ---------------------------------------------------------------- state
VARIABLES
    redisEnv,       \* the deployment: "ok" if UPSTASH_REDIS_URL and its credential are set and
                    \* the redis library is there, "unset" otherwise
    llmEnv,         \* the rest of the deployment's environment, one of Envs
    FALLBACK_MODE,  \* the deployment: the import of the web framework failed
    IMPORTS_OK,     \* the deployment: models, templates and job_queue were imported
    app,            \* the deployment: the application, the one without routes, or NoApp
    mangum_handler, \* the deployment: the adapter built around app, or NoMangum
    memory_lock,    \* _memory_lock of the process of Threads: the thread that holds it, or 0
    threads,        \* threads of one process inside a job store function
    redis_store,    \* the network store: job id -> hash (field -> text)
    redis_client,   \* per process: the cached client, or NoClient
    USE_REDIS,      \* per process: the flag set by _initialize_redis
    memory_store,   \* per process: _memory_store, job id -> record or None
    issued,         \* ids returned by uuid4 so far
    calls,          \* the process_job invocations in flight, and the worker threads they
                    \* stopped waiting for
    invocations,    \* per job id: how often get_llm_response was called for it
    redis_ttl,      \* the network store: job id -> seconds to live of its key
    connections,    \* per process: how many clients _initialize_redis has built
    failed,         \* per process: a network operation of it has failed
    faults,         \* failures of the network store and expiries so far
    resp            \* the response of the request that was just answered, if any (or the
                    \* abandoned thread that just ended)

vars == <<redisEnv, llmEnv, FALLBACK_MODE, IMPORTS_OK, app, mangum_handler, memory_lock, threads,
          redis_store, redis_ttl, redis_client, USE_REDIS, connections, failed, memory_store, issued,
          calls, invocations, faults, resp>>

\* what is fixed when the module has been loaded
deployment == <<redisEnv, llmEnv, FALLBACK_MODE, IMPORTS_OK, app, mangum_handler>>

NoClient == "None"
Client == "client"
EmptyHash == [f \in {} |-> None]

\* pipe.expire(key, 3600); what TTL answers for a key that does not exist;
\* an entry of the in-process mapping carries no expiry
TTL == 3600
KeyMissing == -2
NoExpiry == -1

Fields == {"status", "context", "result", "error"}

\* a write that replaces the whole hash by the fields it was given
HSet_replace(hash, upd) == upd

\* HSET key field value ...: the hash after the write
HSet(hash, upd) ==
    [f \in (DOMAIN hash) \cup (DOMAIN upd) |-> IF f \in DOMAIN upd THEN upd[f] ELSE hash[f]]

NewJobHash(context) ==
    [f \in Fields |->
        CASE f = "status" -> "pending"
          [] f = "context" -> JsonDumps(context)
          [] f = "result" -> JsonDumps(None)
          [] f = "error" -> JsonDumps(None)]

NewJobRecord(context) ==
    [kind |-> "dict", status |-> "pending", context |-> context, result |-> None, error |-> None]

\* a get_job that returns the result field as stored, without json.loads
ParseHash_result_unparsed(data) ==
    [kind |-> "dict",
     status |-> IF "status" \in DOMAIN data THEN data["status"] ELSE "pending",
     context |-> IF "context" \in DOMAIN data THEN JsonLoads(data["context"]) ELSE EmptyDict,
     result |-> IF "result" \in DOMAIN data THEN data["result"] ELSE None,
     error |-> IF "error" \in DOMAIN data THEN JsonLoads(data["error"]) ELSE None]

\* the dict get_job builds from a non-empty hash
ParseHash(data) ==
    [kind |-> "dict",
     status |-> IF "status" \in DOMAIN data THEN data["status"] ELSE "pending",
     context |-> IF "context" \in DOMAIN data THEN JsonLoads(data["context"]) ELSE EmptyDict,
     result |-> IF "result" \in DOMAIN data THEN JsonLoads(data["result"]) ELSE None,
     error |-> IF "error" \in DOMAIN data THEN JsonLoads(data["error"]) ELSE None]

\* an update that writes the status and forgets the result and the error
UpdateFields_status_only(status, result, error) == {"status"}

\* the fields update_job_status writes
UpdateFields(status, result, error) ==
    {"status"} \cup (IF result # None THEN {"result"} ELSE {}) \cup (IF error # None THEN {"error"} ELSE {})

UpdateHash(status, result, error) ==
    [f \in UpdateFields(status, result, error) |->
        CASE f = "status" -> status
          [] f = "result" -> JsonDumps(result)
          [] f = "error" -> JsonDumps(error)]

UpdateRecord(job_data, status, result, error) ==
    [job_data EXCEPT !.status = status,
                     !.result = IF result # None THEN result ELSE @,
                     !.error = IF error # None THEN error ELSE @]

\* ---------------------------------------------------------------- job store
\* redis.from_url(...): one more client built in this process
Connect(n) == IF n < MaxConnections THEN n + 1 ELSE n

\* _initialize_redis; pingOk is the outcome of the connectivity check
initialize_redis(p, pingOk) ==
    IF redis_client[p] # NoClient
    THEN /\ redis_client' = redis_client
         /\ USE_REDIS' = USE_REDIS
         /\ connections' = connections
    ELSE /\ connections' = IF redisEnv = "ok" THEN [connections EXCEPT ![p] = Connect(@)] ELSE connections
         /\ IF redisEnv = "ok" /\ pingOk
            THEN /\ redis_client' = [redis_client EXCEPT ![p] = Client]
                 /\ USE_REDIS' = [USE_REDIS EXCEPT ![p] = TRUE]
            ELSE /\ redis_client' = [redis_client EXCEPT ![p] = NoClient]
                 /\ USE_REDIS' = [USE_REDIS EXCEPT ![p] = FALSE]

OnRedis(p) == USE_REDIS'[p] /\ redis_client'[p] # NoClient

\* the outcomes the network can still produce: a failure needs budget
Outcomes == IF faults < MaxFaults THEN {TRUE, FALSE} ELSE {TRUE}

\* the connectivity check runs only when a client is being built
Pinged(p) == redis_client[p] = NoClient /\ redisEnv = "ok"

\* the failures one store call met: of its connectivity check and of its command
Faults(p, pingOk, opOk) ==
    /\ Pinged(p) \/ pingOk
    /\ OnRedis(p) \/ opOk
    /\ faults' = faults + (IF pingOk THEN 0 ELSE 1) + (IF opOk THEN 0 ELSE 1)
    /\ failed' = [failed EXCEPT ![p] = @ \/ ~pingOk \/ ~opOk]

\* an id generator that repeats itself
uuid4_repeating == CHOOSE i \in JobIds : \A j \in JobIds : i <= j

\* uuid.uuid4(): an id that was never returned before
uuid4 == CHOOSE i \in JobIds \ issued : \A j \in JobIds \ issued : i <= j

\* a create_job that gives up when the network command fails
create_job_no_fallback(p, job_id, context, pingOk, opOk) ==
    /\ initialize_redis(p, pingOk)
    /\ IF OnRedis(p) /\ opOk
       THEN /\ redis_store' = [redis_store EXCEPT ![job_id] = HSet(EmptyHash, NewJobHash(context))]
            /\ redis_ttl' = [redis_ttl EXCEPT ![job_id] = TTL]
            /\ memory_store' = memory_store
       ELSE /\ memory_store' = IF OnRedis(p) THEN memory_store
                               ELSE [memory_store EXCEPT ![p][job_id] = NewJobRecord(context)]
            /\ redis_store' = redis_store
            /\ redis_ttl' = redis_ttl

\* create_job; opOk is whether the network command succeeds
create_job(p, job_id, context, pingOk, opOk) ==
    /\ initialize_redis(p, pingOk)
    /\ IF OnRedis(p) /\ opOk
       THEN /\ redis_store' = [redis_store EXCEPT ![job_id] = HSet(EmptyHash, NewJobHash(context))]
            /\ redis_ttl' = [redis_ttl EXCEPT ![job_id] = TTL]
            /\ memory_store' = memory_store
       ELSE /\ memory_store' = [memory_store EXCEPT ![p][job_id] = NewJobRecord(context)]
            /\ redis_store' = redis_store
            /\ redis_ttl' = redis_ttl

\* a get_job that answers a fresh record for a key that is not there
get_job_default(p, job_id, opOk) ==
    IF OnRedis(p) /\ opOk
    THEN ParseHash(redis_store[job_id])
    ELSE IF memory_store[p][job_id] = None THEN NewJobRecord(EmptyDict) ELSE memory_store[p][job_id]

\* a get_job that parses the hash without looking whether it is empty
get_job_unchecked(p, job_id, opOk) ==
    IF OnRedis(p) /\ opOk
    THEN ParseHash(redis_store[job_id])
    ELSE memory_store[p][job_id]

\* get_job: the value returned (reads the primed client state set by initialize_redis)
get_job(p, job_id, opOk) ==
    IF OnRedis(p) /\ opOk
    THEN IF redis_store[job_id] # EmptyHash THEN ParseHash(redis_store[job_id]) ELSE None
    ELSE memory_store[p][job_id]

\* an update that sends nothing when it has neither result nor error to store
update_job_status_skip_bare(p, job_id, status, result, error, pingOk, opOk) ==
    /\ initialize_redis(p, pingOk)
    /\ IF result = None /\ error = None
       THEN UNCHANGED <<redis_store, redis_ttl, memory_store>>
       ELSE IF OnRedis(p) /\ opOk
       THEN /\ redis_store' = [redis_store EXCEPT ![job_id] = HSet(@, UpdateHash(status, result, error))]
            /\ redis_ttl' = [redis_ttl EXCEPT ![job_id] = TTL]
            /\ memory_store' = memory_store
       ELSE /\ redis_store' = redis_store
            /\ redis_ttl' = redis_ttl
            /\ IF memory_store[p][job_id] = None
               THEN memory_store' = memory_store
               ELSE memory_store' = [memory_store EXCEPT ![p][job_id] = UpdateRecord(@, status, result, error)]

\* an update that leaves a completed or failed record as it is
update_job_status_checked(p, job_id, status, result, error, pingOk, opOk) ==
    /\ initialize_redis(p, pingOk)
    /\ IF OnRedis(p) /\ opOk
       THEN /\ redis_store' = IF "status" \in DOMAIN redis_store[job_id]
                                 /\ redis_store[job_id]["status"] \in {"completed", "failed"}
                              THEN redis_store
                              ELSE [redis_store EXCEPT ![job_id] = HSet(@, UpdateHash(status, result, error))]
            /\ redis_ttl' = [redis_ttl EXCEPT ![job_id] = TTL]
            /\ memory_store' = memory_store
       ELSE /\ redis_store' = redis_store
            /\ redis_ttl' = redis_ttl
            /\ IF memory_store[p][job_id] = None \/ memory_store[p][job_id].status \in {"completed", "failed"}
               THEN memory_store' = memory_store
               ELSE memory_store' = [memory_store EXCEPT ![p][job_id] = UpdateRecord(@, status, result, error)]

\* an update whose network command is not keyed by the job id
update_job_status_every_key(p, job_id, status, result, error, pingOk, opOk) ==
    /\ initialize_redis(p, pingOk)
    /\ IF OnRedis(p) /\ opOk
       THEN /\ redis_store' = [i \in JobIds |-> HSet(redis_store[i], UpdateHash(status, result, error))]
            /\ redis_ttl' = [i \in JobIds |-> TTL]
            /\ memory_store' = memory_store
       ELSE /\ redis_store' = redis_store
            /\ redis_ttl' = redis_ttl
            /\ IF memory_store[p][job_id] = None
               THEN memory_store' = memory_store
               ELSE memory_store' = [memory_store EXCEPT ![p][job_id] = UpdateRecord(@, status, result, error)]

\* update_job_status
update_job_status(p, job_id, status, result, error, pingOk, opOk) ==
    /\ initialize_redis(p, pingOk)
    /\ IF OnRedis(p) /\ opOk
       THEN /\ redis_store' = [redis_store EXCEPT ![job_id] = HSet(@, UpdateHash(status, result, error))]
            /\ redis_ttl' = [redis_ttl EXCEPT ![job_id] = TTL]
            /\ memory_store' = memory_store
       ELSE /\ redis_store' = redis_store
            /\ redis_ttl' = redis_ttl
            /\ IF memory_store[p][job_id] = None
               THEN memory_store' = memory_store
               ELSE memory_store' = [memory_store EXCEPT ![p][job_id] = UpdateRecord(@, status, result, error)]

\* ---------------------------------------------------------------- handlers
IdleCall == [pc |-> "idle", proc |-> 0, id |-> 0, context |-> None, err |-> None]

NoReply == [kind |-> "none", text |-> <<>>]

\* a key the event does not have
Absent == "absent"

\* the event handed to handler: None, a dict, or a value that is no dict
NoUrl == [kind |-> Absent, path |-> Absent]
NoEvent == [kind |-> "None", rawPath |-> Absent, path |-> Absent, url |-> NoUrl, method |-> Absent]

NoResp == [op |-> "none", code |-> 0, proc |-> 0, stack |-> "", job_id |-> 0, status |-> "",
           result |-> None, error |-> None, outcome |-> "none", reply |-> NoReply, content_type |-> "",
           event |-> NoEvent]

\* ProjectContext(**context_dict): both fields are required
ValidContext(context_dict) == {"stack", "files"} \subseteq DOMAIN context_dict

\* what process_job finds in the environment: LLM_TIMEOUT_SECONDS unparsable,
\* google.genai not importable, OPENAI_API_KEY unset, or all fine
Envs == {"ok", "bad_timeout", "no_genai", "no_key"}

ErrValidation == Str("validation error for ProjectContext")
ErrBadTimeout == Str("could not convert string to float")
ErrNoGenai == Str("No module named google.genai")

\* the text the model answers with, as tokens (the two code-fence markers,
\* the JSON object, other words)
FenceJson == "FENCE_JSON"
Fence == "FENCE"
JsonObject == "{dockerfile: FROM x}"
JsonArray == "[1, 2]"
Texts == {<<JsonObject>>, <<FenceJson, JsonObject, Fence>>, <<Fence, JsonObject, Fence>>,
          <<"Here you go", FenceJson, JsonObject, Fence>>, <<"junk">>, <<JsonArray>>}

\* the remote call does not answer: the timer of asyncio.wait_for fires
Hang == [kind |-> "hang", text |-> <<>>]

\* an await of the remote call without a timer: a call that hangs never resumes
Replies_untimed == {[kind |-> "text", text |-> t] : t \in Texts} \cup {[kind |-> "raise", text |-> <<>>]}

\* what the await of the remote call resumes with: the text of the answer,
\* the exception the call raised, or the timeout
Replies == {[kind |-> "text", text |-> t] : t \in Texts} \cup {[kind |-> "raise", text |-> <<>>], Hang}

RECURSIVE Remove(_, _)
Remove(text, tokens) ==
    IF text = <<>> THEN <<>>
    ELSE IF Head(text) \in tokens THEN Remove(Tail(text), tokens)
    ELSE <<Head(text)>> \o Remove(Tail(text), tokens)

\* the clean-up of markdown code blocks
StripFences(text) ==
    IF Head(text) = FenceJson THEN Remove(text, {FenceJson, Fence})
    ELSE IF Head(text) = Fence THEN Remove(text, {Fence})
    ELSE text

\* json.loads of the answer: the dict of the artifacts, a value that is not
\* a dict, or None for JSONDecodeError
ParseAnswer(text) ==
    IF text = <<JsonObject>> THEN DevOpsFiles("FROM x")
    ELSE IF text = <<JsonArray>> THEN [kind |-> "list"]
    ELSE None

\* get_llm_response after the client was obtained: the artifacts or the failure
\* kind; every failure leaves it as an HTTPException
TimeoutDetail == Str("LLM request timed out")
ParseDetail == Str("Failed to parse AI response")
ModelErrorDetail == Str("AI model error")
NoKeyDetail == Str("API key is not configured on the server.")

LLMOutcome(reply) ==
    CASE reply.kind = "hang" -> [kind |-> "timeout", code |-> 504, result |-> None, detail |-> TimeoutDetail]
      [] reply.kind = "raise" -> [kind |-> "remote_error", code |-> 500, result |-> None, detail |-> ModelErrorDetail]
      [] OTHER ->
           IF ParseAnswer(StripFences(reply.text)) = None
           THEN [kind |-> "parse_error", code |-> 500, result |-> None, detail |-> ParseDetail]
           ELSE IF ParseAnswer(StripFences(reply.text)).kind # "dict"
           THEN [kind |-> "remote_error", code |-> 500, result |-> None, detail |-> ModelErrorDetail]
           ELSE [kind |-> "success", code |-> 200, result |-> ParseAnswer(StripFences(reply.text)),
                 detail |-> None]

\* a client factory that does not look at the key
get_gemini_client_unchecked(env) == IF env = "no_genai" THEN "ImportError" ELSE "model"

\* get_gemini_client: the import fails, the key is missing, or the model
get_gemini_client(env) ==
    IF env = "no_genai" THEN "ImportError"
    ELSE IF env = "no_key" THEN "ValueError"
    ELSE "model"

NoApp == "None"
FastAPI == "FastAPI"
MinimalApp == "FastAPI without routes"
NoMangum == "None"
Mangum == "Mangum"

\* the module loaded with every import successful
Loaded ==
    /\ FALLBACK_MODE = FALSE
    /\ IMPORTS_OK = TRUE
    /\ app = FastAPI
    /\ mangum_handler = Mangum

\* a thread that is in no job store function; n counts the calls it has made
IdleThread == [pc |-> "idle", op |-> "none", id |-> 0, path |-> "none", n |-> 0]

\* the event loop of process p is inside the synchronous part of a handler
Busy(p) == \E c \in Calls : calls[c].proc = p /\ calls[c].pc \in {"mark", "fail"}

Count(n) == IF n < MaxInvocations THEN n + 1 ELSE n

Init ==
    /\ redisEnv \in {"unset", "ok"}
    /\ llmEnv \in Envs
    /\ Loaded
    /\ memory_lock = 0
    /\ threads = [t \in Threads |-> IdleThread]
    /\ redis_store = [i \in JobIds |-> EmptyHash]
    /\ redis_ttl = [i \in JobIds |-> KeyMissing]
    /\ redis_client = [p \in Procs |-> NoClient]
    /\ USE_REDIS = [p \in Procs |-> FALSE]
    /\ connections = [p \in Procs |-> 0]
    /\ failed = [p \in Procs |-> FALSE]
    /\ memory_store = [p \in Procs |-> [i \in JobIds |-> None]]
    /\ issued = {}
    /\ calls = [c \in Calls |-> IdleCall]
    /\ invocations = [i \in JobIds |-> 0]
    /\ faults = 0
    /\ resp = NoResp

\* generate_devops (POST /) on a stack that has a template
DispatchTemplate(p, context) ==
    /\ ~Busy(p)
    /\ get_template(context.stack) # None
    /\ resp' = [NoResp EXCEPT !.op = "dispatch", !.code = 200, !.proc = p, !.stack = context.stack,
                              !.result = get_template(context.stack), !.outcome = "template"]
    /\ UNCHANGED <<deployment, memory_lock, threads, redis_store, redis_ttl, redis_client, USE_REDIS, connections,
                   failed, memory_store,
                   issued, calls, invocations, faults>>

\* generate_devops (POST /) on a stack without template: create_job
DispatchJob(p, context) ==
    /\ ~Busy(p)
    /\ get_template(context.stack) = None
    /\ issued # JobIds
    /\ \E pingOk \in Outcomes, opOk \in Outcomes :
        LET job_id == uuid4 IN
        /\ create_job(p, job_id, context, pingOk, opOk)
        /\ Faults(p, pingOk, opOk)
        /\ issued' = issued \cup {job_id}
        /\ resp' = [NoResp EXCEPT !.op = "dispatch", !.code = 200, !.proc = p, !.stack = context.stack,
                                  !.job_id = job_id, !.status = "pending", !.outcome = "job"]
    /\ UNCHANGED <<deployment, memory_lock, threads, calls, invocations>>

\* a response that leaves the error out
JobStatus_no_error(p, job_id, job_data) ==
    [NoResp EXCEPT !.op = "query", !.code = 200, !.proc = p, !.job_id = job_id,
                   !.status = job_data.status, !.result = job_data.result, !.outcome = "found"]

\* JobStatus(job_id=..., status=..., result=..., error=...)
JobStatus(p, job_id, job_data) ==
    [NoResp EXCEPT !.op = "query", !.code = 200, !.proc = p, !.job_id = job_id,
                   !.status = job_data.status, !.result = job_data.result,
                   !.error = job_data.error, !.outcome = "found"]

\* get_job_status (GET /job/{job_id})
Query(p, job_id) ==
    /\ ~Busy(p)
    /\ \E pingOk \in Outcomes, opOk \in Outcomes :
        /\ initialize_redis(p, pingOk)
        /\ Faults(p, pingOk, opOk)
        /\ LET job_data == get_job(p, job_id, opOk) IN
           resp' = IF job_data = None
                   THEN [NoResp EXCEPT !.op = "query", !.code = 404, !.proc = p, !.job_id = job_id,
                                       !.outcome = "not_found"]
                   ELSE JobStatus(p, job_id, job_data)
    /\ UNCHANGED <<deployment, memory_lock, threads, redis_store, redis_ttl, memory_store, issued, calls, invocations>>

\* a handler that answers 200 whatever happened
TriggerResp_always_ok(p, job_id, code, outcome) ==
    [NoResp EXCEPT !.op = "trigger", !.code = 200, !.proc = p, !.job_id = job_id, !.outcome = outcome]

\* the answer of process_job: the message, or the HTTPException raised
TriggerResp(p, job_id, code, outcome) ==
    [NoResp EXCEPT !.op = "trigger", !.code = code, !.proc = p, !.job_id = job_id, !.outcome = outcome]

\* a guard that lets a job through while it is being processed
AlreadyProcessed_terminal(job_data) == job_data.status \in {"completed", "failed"}

\* process_job: the guard against a second run of a job
AlreadyProcessed(job_data) == job_data.status # "pending"

\* process_job (POST /process/{job_id}): get_job and the two guards
TriggerRead(c, p, job_id) ==
    /\ calls[c].pc = "idle"
    /\ \A b \in Calls : b < c => calls[b].pc # "idle"
    /\ ~Busy(p)
    /\ \E pingOk \in Outcomes, opOk \in Outcomes :
        /\ initialize_redis(p, pingOk)
        /\ Faults(p, pingOk, opOk)
        /\ LET job_data == get_job(p, job_id, opOk) IN
           IF job_data = None
           THEN /\ resp' = TriggerResp(p, job_id, 404, "not_found")
                /\ calls' = calls
           ELSE IF AlreadyProcessed(job_data)
           THEN /\ resp' = [TriggerResp(p, job_id, 200, "already") EXCEPT !.status = job_data.status]
                /\ calls' = calls
           ELSE /\ resp' = NoResp
                /\ calls' = [calls EXCEPT ![c] = [IdleCall EXCEPT !.pc = "mark", !.proc = p, !.id = job_id,
                                                                  !.context = job_data.context]]
    /\ UNCHANGED <<deployment, memory_lock, threads, redis_store, redis_ttl, memory_store, issued, invocations>>

\* process_job: update to processing, then the synchronous start of the
\* try block up to the await inside get_llm_response
TriggerMark(c) ==
    /\ calls[c].pc = "mark"
    /\ \E pingOk \in Outcomes, opOk \in Outcomes :
        LET p == calls[c].proc
            job_id == calls[c].id
            env == llmEnv
        IN
        /\ update_job_status(p, job_id, "processing", None, None, pingOk, opOk)
        /\ Faults(p, pingOk, opOk)
        /\ IF ~ValidContext(calls[c].context)
           THEN /\ calls' = [calls EXCEPT ![c].pc = "fail", ![c].err = ErrValidation]
                /\ invocations' = invocations
                /\ resp' = NoResp
           ELSE IF env = "bad_timeout"
           THEN /\ calls' = [calls EXCEPT ![c].pc = "fail", ![c].err = ErrBadTimeout]
                /\ invocations' = invocations
                /\ resp' = NoResp
           ELSE IF get_gemini_client(env) = "ImportError"
           THEN /\ calls' = [calls EXCEPT ![c].pc = "fail", ![c].err = ErrNoGenai]
                /\ invocations' = [invocations EXCEPT ![job_id] = Count(@)]
                /\ resp' = NoResp
           ELSE IF get_gemini_client(env) = "ValueError"
           THEN /\ calls' = [calls EXCEPT ![c] = IdleCall]
                /\ invocations' = [invocations EXCEPT ![job_id] = Count(@)]
                /\ resp' = [TriggerResp(p, job_id, 500, "no_credential") EXCEPT !.error = NoKeyDetail]
           ELSE /\ calls' = [calls EXCEPT ![c].pc = "await"]
                /\ invocations' = [invocations EXCEPT ![job_id] = Count(@)]
                /\ resp' = NoResp
    /\ UNCHANGED <<deployment, memory_lock, threads, issued>>

\* process_job: the except Exception branch
TriggerFail(c) ==
    /\ calls[c].pc = "fail"
    /\ \E pingOk \in Outcomes, opOk \in Outcomes :
        /\ update_job_status(calls[c].proc, calls[c].id, "failed", None, calls[c].err, pingOk, opOk)
        /\ Faults(calls[c].proc, pingOk, opOk)
    /\ calls' = [calls EXCEPT ![c] = IdleCall]
    /\ resp' = [TriggerResp(calls[c].proc, calls[c].id, 500, "exception") EXCEPT !.error = calls[c].err]
    /\ UNCHANGED <<deployment, memory_lock, threads, issued, invocations>>

\* process_job resumed after the await: the answer, the timeout or the failure
\* of the remote call
TriggerLLM(c, reply) ==
    /\ calls[c].pc = "await"
    /\ reply \in Replies
    /\ ~Busy(calls[c].proc)
    /\ LET out == LLMOutcome(reply)
           p == calls[c].proc
           job_id == calls[c].id
       IN
       IF out.kind = "success"
       THEN /\ \E pingOk \in Outcomes, opOk \in Outcomes :
                /\ update_job_status(p, job_id, "completed", out.result, None, pingOk, opOk)
                /\ Faults(p, pingOk, opOk)
            /\ resp' = [TriggerResp(p, job_id, 200, "success") EXCEPT !.result = out.result, !.reply = reply]
       ELSE /\ resp' = [TriggerResp(p, job_id, out.code, out.kind) EXCEPT !.error = out.detail, !.reply = reply]
            /\ UNCHANGED <<redis_store, redis_ttl, redis_client, USE_REDIS, connections, failed, memory_store, faults>>
    /\ calls' = [calls EXCEPT ![c] = IF reply = Hang THEN [IdleCall EXCEPT !.pc = "abandoned", !.proc = calls[c].proc]
                                     ELSE IdleCall]
    /\ UNCHANGED <<deployment, memory_lock, threads, issued, invocations>>

\* a worker thread that hands its answer to the job store when it ends
LateAnswer_writes(c, reply) ==
    /\ calls[c].pc = "abandoned"
    /\ reply \in Replies \ {Hang}
    /\ ~Busy(calls[c].proc)
    /\ calls' = [calls EXCEPT ![c] = IdleCall]
    /\ \E job_id \in JobIds :
        IF LLMOutcome(reply).kind = "success"
        THEN update_job_status(calls[c].proc, job_id, "completed", LLMOutcome(reply).result, None, TRUE, TRUE)
        ELSE UNCHANGED <<redis_store, redis_ttl, redis_client, USE_REDIS, connections, memory_store>>
    /\ resp' = [NoResp EXCEPT !.op = "thread_end", !.proc = calls[c].proc, !.outcome = LLMOutcome(reply).kind]
    /\ UNCHANGED <<deployment, memory_lock, threads, failed, issued, invocations, faults>>

\* _call_gemini_sync ends in its thread after asyncio.wait_for gave up on it:
\* it returns the text or raises, and nobody awaits the future any more
LateAnswer(c, reply) ==
    /\ calls[c].pc = "abandoned"
    /\ reply \in Replies \ {Hang}
    /\ calls' = [calls EXCEPT ![c] = IdleCall]
    /\ resp' = [NoResp EXCEPT !.op = "thread_end", !.proc = calls[c].proc, !.outcome = LLMOutcome(reply).kind]
    /\ UNCHANGED <<deployment, memory_lock, threads, redis_store, redis_ttl, redis_client, USE_REDIS, connections, failed,
                   memory_store, issued, invocations, faults>>

\* root (GET /): the dict of the service description, sent as JSON
Root ==
    /\ resp' = [NoResp EXCEPT !.op = "root", !.code = 200, !.content_type = "application/json"]
    /\ UNCHANGED <<deployment, memory_lock, threads, redis_store, redis_ttl, redis_client, USE_REDIS, connections,
                   failed, memory_store,
                   issued, calls, invocations, faults>>

\* the time-to-live of a hash in the network store elapses
Expire(job_id) ==
    /\ redis_store[job_id] # EmptyHash
    /\ faults < MaxFaults
    /\ faults' = faults + 1
    /\ redis_store' = [redis_store EXCEPT ![job_id] = EmptyHash]
    /\ redis_ttl' = [redis_ttl EXCEPT ![job_id] = KeyMissing]
    /\ resp' = NoResp
    /\ UNCHANGED <<deployment, memory_lock, threads, redis_client, USE_REDIS, connections, failed, memory_store,
                   issued, calls, invocations>>

Next ==
    \/ \E p \in Procs, context \in Contexts : DispatchTemplate(p, context)
    \/ \E p \in Procs, context \in Contexts : DispatchJob(p, context)
    \/ \E p \in Procs, job_id \in JobIds : Query(p, job_id)
    \/ \E c \in Calls, p \in Procs, job_id \in JobIds : TriggerRead(c, p, job_id)
    \/ \E c \in Calls : TriggerMark(c)
    \/ \E c \in Calls : TriggerFail(c)
    \/ \E c \in Calls, reply \in Replies : TriggerLLM(c, reply)
    \/ \E c \in Calls, reply \in Replies : LateAnswer(c, reply)
    \/ Root
    \/ \E job_id \in JobIds : Expire(job_id)

Spec == Init /\ [][Next]_vars

\* the event loop runs a handler that is ready to go on, and the timer of
\* asyncio.wait_for fires; nothing makes the remote model answer
Fairness ==
    \A c \in Calls :
        /\ WF_vars(TriggerMark(c))
        /\ WF_vars(TriggerFail(c))
        /\ SF_vars(TriggerLLM(c, Hang))


\* the same handlers over a network store that never fails and never expires
InitReliable ==
    /\ redisEnv \in {"unset", "ok"}
    /\ llmEnv \in Envs
    /\ Loaded
    /\ memory_lock = 0
    /\ threads = [t \in Threads |-> IdleThread]
    /\ redis_store = [i \in JobIds |-> EmptyHash]
    /\ redis_ttl = [i \in JobIds |-> KeyMissing]
    /\ redis_client = [p \in Procs |-> NoClient]
    /\ USE_REDIS = [p \in Procs |-> FALSE]
    /\ connections = [p \in Procs |-> 0]
    /\ failed = [p \in Procs |-> FALSE]
    /\ memory_store = [p \in Procs |-> [i \in JobIds |-> None]]
    /\ issued = {}
    /\ calls = [c \in Calls |-> IdleCall]
    /\ invocations = [i \in JobIds |-> 0]
    /\ faults = MaxFaults
    /\ resp = NoResp

NextReliable ==
    \/ \E p \in Procs, context \in Contexts : DispatchTemplate(p, context)
    \/ \E p \in Procs, context \in Contexts : DispatchJob(p, context)
    \/ \E p \in Procs, job_id \in JobIds : Query(p, job_id)
    \/ \E c \in Calls, p \in Procs, job_id \in JobIds : TriggerRead(c, p, job_id)
    \/ \E c \in Calls : TriggerMark(c)
    \/ \E c \in Calls : TriggerFail(c)
    \/ \E c \in Calls, reply \in Replies : TriggerLLM(c, reply)
    \/ \E c \in Calls, reply \in Replies : LateAnswer(c, reply)
    \/ Root

SpecReliable == InitReliable /\ [][NextReliable]_vars

\* the scheduling of the handlers, over the store that never fails (a store
\* call is one step of its handler, whether it fails or not)
SpecLive == InitReliable /\ [][NextReliable]_vars /\ Fairness

\* ---------------------------------------------------------------- handler
EventPaths == {"/", "/health", "/job/1"}
PathVals == {Absent, ""} \cup EventPaths
UrlVals == {NoUrl, [kind |-> "str", path |-> Absent]} \cup {[kind |-> "dict", path |-> x] : x \in {Absent, "/", "/job/1"}}
MethodVals == {Absent, "GET", "POST"}

Events ==
    {NoEvent, [NoEvent EXCEPT !.kind = "str"]} \cup
    [kind : {"dict"}, rawPath : PathVals, path : PathVals \ {"", "/"}, url : UrlVals, method : MethodVals]

\* what the adapter does with the event: the response of the application, or
\* an exception
MangumOutcomes ==
    {[kind |-> "return", statusCode |-> c] : c \in {200, 404, 500}} \cup {[kind |-> "raise", statusCode |-> 0]}

\* the operand of "or" that is not taken: None and the empty string
Truthy(v) == v \notin {Absent, ""}

Raise == "raise"

\* (event or {}).get('rawPath') or (event or {}).get('path')
\*     or (event or {}).get('url', {}).get('path', '/')
EventPath(event) ==
    IF event.kind = "None" THEN "/"
    ELSE IF event.kind = "str" THEN Raise
    ELSE IF Truthy(event.rawPath) THEN event.rawPath
    ELSE IF Truthy(event.path) THEN event.path
    ELSE IF event.url.kind = Absent THEN "/"
    ELSE IF event.url.kind = "str" THEN Raise
    ELSE IF event.url.path = Absent THEN "/"
    ELSE event.url.path

\* ...get('requestContext', {}).get('http', {}).get('method')
\*     or (event or {}).get('httpMethod') or (event or {}).get('method', 'GET'),
\* for an event that has neither requestContext nor httpMethod
EventMethod(event) ==
    IF event.kind = "None" THEN "GET"
    ELSE IF event.kind = "str" THEN Raise
    ELSE IF event.method = Absent THEN "GET"
    ELSE event.method

Return(statusCode) == [kind |-> "return", statusCode |-> statusCode]

\* handler: the body of its try statement; mg is what the adapter does
handler_try(event, mg) ==
    IF ~FALLBACK_MODE /\ mangum_handler # NoMangum /\ mg.kind = "return"
    THEN Return(mg.statusCode)
    ELSE IF EventPath(event) = Raise
    THEN [kind |-> "raise", statusCode |-> 0]
    ELSE IF FALLBACK_MODE
    THEN IF EventPath(event) \in {"/", "/health"} THEN Return(200) ELSE Return(503)
    ELSE IF EventMethod(event) = "GET" /\ EventPath(event) \in {"/health", "/"}
    THEN Return(200)
    ELSE Return(503)

\* a handler without the except branch around its body
handler_uncaught(event, mg) == handler_try(event, mg)

\* handler(event, context): the except branch answers 500
handler(event, mg) ==
    IF handler_try(event, mg).kind = "raise" THEN Return(500) ELSE handler_try(event, mg)

\* one invocation of the serverless function
Handler(event, mg) ==
    /\ resp' = [NoResp EXCEPT !.op = "handler", !.code = handler(event, mg).statusCode,
                              !.outcome = handler(event, mg).kind, !.event = event]
    /\ UNCHANGED <<deployment, memory_lock, threads, redis_store, redis_ttl, redis_client, USE_REDIS, connections,
                   failed, memory_store, issued, calls, invocations, faults>>

\* the stand-ins defined when the import of the modules raised something
\* other than ImportError: each of them raises ImportError
Unavailable == app = FastAPI /\ ~IMPORTS_OK

CreateFailedDetail == Str("Failed to create processing job")

\* generate_devops with the stand-ins: the lookup raises and is skipped, then
\* create_job raises
DispatchUnavailable(p, context) ==
    /\ Unavailable
    /\ resp' = [NoResp EXCEPT !.op = "dispatch", !.code = 500, !.proc = p, !.stack = context.stack,
                              !.error = CreateFailedDetail, !.outcome = "create_failed"]
    /\ UNCHANGED <<deployment, memory_lock, threads, redis_store, redis_ttl, redis_client, USE_REDIS, connections,
                   failed, memory_store, issued, calls, invocations, faults>>

\* get_job_status with the stand-ins: get_job raises
QueryUnavailable(p, job_id) ==
    /\ Unavailable
    /\ resp' = [NoResp EXCEPT !.op = "query", !.code = 500, !.proc = p, !.job_id = job_id, !.outcome = "exception"]
    /\ UNCHANGED <<deployment, memory_lock, threads, redis_store, redis_ttl, redis_client, USE_REDIS, connections,
                   failed, memory_store, issued, calls, invocations, faults>>

\* process_job with the stand-ins: get_job raises before the try statement
TriggerUnavailable(p, job_id) ==
    /\ Unavailable
    /\ resp' = [NoResp EXCEPT !.op = "trigger", !.code = 500, !.proc = p, !.job_id = job_id, !.outcome = "exception"]
    /\ UNCHANGED <<deployment, memory_lock, threads, redis_store, redis_ttl, redis_client, USE_REDIS, connections,
                   failed, memory_store, issued, calls, invocations, faults>>

\* the ways the module can come out of its imports
InitDeploy ==
    /\ redisEnv = "unset"
    /\ llmEnv = "ok"
    /\ FALLBACK_MODE \in BOOLEAN
    /\ IMPORTS_OK \in BOOLEAN
    /\ app \in {NoApp, FastAPI, MinimalApp}
    /\ mangum_handler \in {NoMangum, Mangum}
    /\ FALLBACK_MODE <=> app = NoApp
    /\ app # FastAPI => mangum_handler = NoMangum
    /\ IMPORTS_OK => app # MinimalApp
    /\ memory_lock = 0
    /\ threads = [t \in Threads |-> IdleThread]
    /\ redis_store = [i \in JobIds |-> EmptyHash]
    /\ redis_ttl = [i \in JobIds |-> KeyMissing]
    /\ redis_client = [p \in Procs |-> NoClient]
    /\ USE_REDIS = [p \in Procs |-> FALSE]
    /\ connections = [p \in Procs |-> 0]
    /\ failed = [p \in Procs |-> FALSE]
    /\ memory_store = [p \in Procs |-> [i \in JobIds |-> None]]
    /\ issued = {}
    /\ calls = [c \in Calls |-> IdleCall]
    /\ invocations = [i \in JobIds |-> 0]
    /\ faults = 0
    /\ resp = NoResp

NextDeploy ==
    \/ \E event \in Events, mg \in MangumOutcomes : Handler(event, mg)
    \/ \E p \in Procs, context \in Contexts : DispatchUnavailable(p, context)
    \/ \E p \in Procs, job_id \in JobIds : QueryUnavailable(p, job_id)
    \/ \E p \in Procs, job_id \in JobIds : TriggerUnavailable(p, job_id)

SpecDeploy == InitDeploy /\ [][NextDeploy]_vars

\* ---------------------------------------------------------------- lock
\* the process whose threads call the job store
LockProc == 1

StoreOps == {"create_job", "get_job", "update_job_status"}

\* a with statement that gives the lock back only when its block runs to the end
Releases_at_end_only(path) == path = "end"

\* with _memory_lock: the lock is given back however the block is left
Releases(path) == TRUE

\* a thread enters a job store function and takes the branch of the
\* in-process mapping: the network store is not configured, or its command
\* or its connectivity check has just failed
Enter(t, op, job_id) ==
    /\ threads[t].pc = "idle"
    /\ threads[t].n < MaxOps
    /\ op = "create_job" => (issued # JobIds /\ job_id = uuid4)
    /\ \E pingOk \in Outcomes, opOk \in Outcomes :
        /\ initialize_redis(LockProc, pingOk)
        /\ Faults(LockProc, pingOk, opOk)
        /\ ~(OnRedis(LockProc) /\ opOk)
    /\ threads' = [threads EXCEPT ![t] = [pc |-> "acquire", op |-> op, id |-> job_id, path |-> "none",
                                          n |-> threads[t].n + 1]]
    /\ issued' = IF op = "create_job" THEN issued \cup {job_id} ELSE issued
    /\ resp' = NoResp
    /\ UNCHANGED <<deployment, memory_lock, redis_store, redis_ttl, memory_store, calls, invocations>>

\* _memory_lock.__enter__: blocks while another thread holds the lock
Acquire(t) ==
    /\ threads[t].pc = "acquire"
    /\ memory_lock = 0
    /\ memory_lock' = t
    /\ threads' = [threads EXCEPT ![t].pc = "locked"]
    /\ resp' = NoResp
    /\ UNCHANGED <<deployment, redis_store, redis_ttl, redis_client, USE_REDIS, connections, failed, memory_store,
                   issued, calls, invocations, faults>>

\* the block of the with statement: it stores, returns what it read, or
\* returns early when update_job_status finds no record
Body(t) ==
    /\ threads[t].pc = "locked"
    /\ LET i == threads[t].id
           found == memory_store[LockProc][i] # None
       IN
       CASE threads[t].op = "create_job" ->
                /\ memory_store' = [memory_store EXCEPT ![LockProc][i] = NewJobRecord(Context("custom"))]
                /\ threads' = [threads EXCEPT ![t].pc = "exit", ![t].path = "end"]
         [] threads[t].op = "get_job" ->
                /\ memory_store' = memory_store
                /\ threads' = [threads EXCEPT ![t].pc = "exit", ![t].path = "return"]
         [] threads[t].op = "update_job_status" ->
                /\ memory_store' = IF found
                                   THEN [memory_store EXCEPT ![LockProc][i] = UpdateRecord(@, "processing", None, None)]
                                   ELSE memory_store
                /\ threads' = [threads EXCEPT ![t].pc = "exit", ![t].path = IF found THEN "end" ELSE "return"]
    /\ resp' = NoResp
    /\ UNCHANGED <<deployment, memory_lock, redis_store, redis_ttl, redis_client, USE_REDIS, connections, failed,
                   issued, calls, invocations, faults>>

\* _memory_lock.__exit__, and the function returns
Exit(t) ==
    /\ threads[t].pc = "exit"
    /\ memory_lock' = IF Releases(threads[t].path) THEN 0 ELSE memory_lock
    /\ threads' = [threads EXCEPT ![t] = [IdleThread EXCEPT !.n = threads[t].n]]
    /\ resp' = [NoResp EXCEPT !.op = threads[t].op, !.proc = LockProc, !.job_id = threads[t].id,
                              !.outcome = threads[t].path]
    /\ UNCHANGED <<deployment, redis_store, redis_ttl, redis_client, USE_REDIS, connections, failed, memory_store,
                   issued, calls, invocations, faults>>

InitLock ==
    /\ redisEnv \in {"unset", "ok"}
    /\ llmEnv = "ok"
    /\ Loaded
    /\ memory_lock = 0
    /\ threads = [t \in Threads |-> IdleThread]
    /\ redis_store = [i \in JobIds |-> EmptyHash]
    /\ redis_ttl = [i \in JobIds |-> KeyMissing]
    /\ redis_client = [p \in Procs |-> NoClient]
    /\ USE_REDIS = [p \in Procs |-> FALSE]
    /\ connections = [p \in Procs |-> 0]
    /\ failed = [p \in Procs |-> FALSE]
    /\ memory_store = [p \in Procs |-> [i \in JobIds |-> None]]
    /\ issued = {}
    /\ calls = [c \in Calls |-> IdleCall]
    /\ invocations = [i \in JobIds |-> 0]
    /\ faults = 0
    /\ resp = NoResp

NextLock ==
    \/ \E t \in Threads, op \in StoreOps, job_id \in JobIds : Enter(t, op, job_id)
    \/ \E t \in Threads : Acquire(t)
    \/ \E t \in Threads : Body(t)
    \/ \E t \in Threads : Exit(t)

\* a thread that can run does run; no assumption on who gets a free lock
FairLock ==
    \A t \in Threads : WF_vars(Acquire(t)) /\ WF_vars(Body(t)) /\ WF_vars(Exit(t))

SpecLock == InitLock /\ [][NextLock]_vars /\ FairLock

\* ---------------------------------------------------------------- properties
Terminal == {"completed", "failed"}

\* where a record can be stored: <<0, id>> in the network store, <<p, id>> in
\* the mapping of process p
Locations == {<<0, i>> : i \in JobIds} \cup {<<p, i>> : p \in Procs, i \in JobIds}

RecordAt(loc) ==
    IF loc[1] = 0
    THEN IF redis_store[loc[2]] = EmptyHash THEN None ELSE ParseHash(redis_store[loc[2]])
    ELSE memory_store[loc[1]][loc[2]]

\* every stored copy of a job
StoredRecords(job_id) == {RecordAt(loc) : loc \in {l \in Locations : l[2] = job_id}} \ {None}

\* the copies get_job can return in process p
Views(p, job_id) ==
    {RecordAt(loc) : loc \in {l \in Locations : l[2] = job_id /\ (l[1] = p \/ (l[1] = 0 /\ redisEnv = "ok"))}} \ {None}

\* the record in the backend process p is set to use
BackendRecord(p, job_id) ==
    IF USE_REDIS[p] /\ redis_client[p] # NoClient THEN RecordAt(<<0, job_id>>) ELSE RecordAt(<<p, job_id>>)

StoreUnchanged == redis_store' = redis_store /\ memory_store' = memory_store

\* this step is process_job reading job_id in process p and passing both guards
PassesGuard(p, job_id) ==
    \E c \in Calls : /\ calls[c].pc = "idle"
                     /\ calls'[c].pc = "mark"
                     /\ calls'[c].proc = p
                     /\ calls'[c].id = job_id

\* C1: a job that a Trigger call moved to processing is completed or failed
\* when that call returns, whatever the outcome of the generation step.
C1_TerminalWhenTriggerReturns ==
    (resp.op = "trigger" /\ resp.outcome \notin {"not_found", "already"})
        => \A r \in Views(resp.proc, resp.job_id) : r.status \in Terminal

\* C2: when the generation step times out, the job is stored as failed with
\* an error that identifies the timeout.
C2_TimeoutStoredAsFailed ==
    (resp.op = "trigger" /\ resp.outcome = "timeout")
        => \A r \in Views(resp.proc, resp.job_id) : r.status = "failed" /\ r.error = TimeoutDetail

\* C3: under concurrent Trigger calls a job ends in exactly one terminal
\* state (a terminal record keeps its state) and no record ever holds a
\* result and an error together.
C3_OneTerminalState ==
    [][\A loc \in Locations :
          LET before == RecordAt(loc)
              after == RecordAt(loc)'
          IN  after # None =>
                /\ ~(after.result # None /\ after.error # None)
                /\ (before # None /\ before.status \in Terminal) => after.status = before.status]_vars

\* C4: for every job, at most one Trigger call passes the pending guard and
\* invokes the generation step.
C4_AtMostOneInvocation == \A i \in JobIds : invocations[i] <= 1

\* C5: Trigger on a job whose stored status is not pending reports that
\* status, invokes no generation and changes nothing: only a job stored as
\* pending passes the guard, and a read that met no network failure answers
\* not found only when the backend holds no record.
C5_NonPendingTriggerIsNoOp ==
    [][/\ (resp'.op = "trigger" /\ resp'.outcome = "already") =>
            /\ StoreUnchanged
            /\ invocations' = invocations
            /\ calls' = calls
            /\ resp'.status # "pending"
            /\ \E r \in Views(resp'.proc, resp'.job_id) : r.status = resp'.status
       /\ \A p \in Procs, i \in JobIds :
            PassesGuard(p, i) => \E r \in Views(p, i) : r.status = "pending"
       /\ \A p \in Procs, i \in JobIds :
            (/\ resp'.op = "trigger" /\ resp'.outcome = "not_found"
             /\ resp'.proc = p /\ resp'.job_id = i
             /\ faults' = faults) => BackendRecord(p, i)' = None]_vars

C5_Witness ==
    /\ resp.op = "trigger"
    /\ resp.outcome = "already"
    /\ resp.status = "completed"
    /\ \E r \in Views(resp.proc, resp.job_id) : r.status = "completed" /\ r.result # None

\* C6: a stored status only moves pending -> processing -> completed or
\* failed; a completed or failed job never changes again.
Allowed(from, to) ==
    \/ from = to
    \/ from = "pending" /\ to = "processing"
    \/ from = "processing" /\ to \in Terminal

C6_StatusMonotonic ==
    [][\A loc \in Locations :
          (RecordAt(loc) # None /\ RecordAt(loc)' # None)
              => Allowed(RecordAt(loc).status, RecordAt(loc)'.status)]_vars

\* C7: in every record, result is set only if the status is completed and
\* error is set only if the status is failed.
C7_ResultAndErrorMatchStatus ==
    \A loc \in Locations :
        RecordAt(loc) # None =>
            /\ RecordAt(loc).result # None => RecordAt(loc).status = "completed"
            /\ RecordAt(loc).error # None => RecordAt(loc).status = "failed"

\* C8: Trigger on an id without a record answers not found, invokes no
\* generation and leaves the stores as they were.
C8_UnknownIdNotFound ==
    [][/\ (resp'.op = "trigger" /\ resp'.outcome = "not_found") =>
            /\ StoreUnchanged
            /\ invocations' = invocations
            /\ calls' = calls
            /\ issued' = issued
            /\ resp'.code = 404
       /\ \A p \in Procs, i \in JobIds :
            Views(p, i) = {} =>
                /\ ~PassesGuard(p, i)
                /\ ~(resp'.op = "trigger" /\ resp'.outcome = "already"
                        /\ resp'.proc = p /\ resp'.job_id = i)]_vars

C8_Witness ==
    /\ resp.op = "trigger"
    /\ resp.outcome = "not_found"
    /\ resp.job_id \notin issued
    /\ issued # {}

\* C9: Dispatch of a context whose stack matches a template key returns the
\* template and creates no job.
C9_TemplateDispatchCreatesNoJob ==
    [][(resp'.op = "dispatch" /\ Lower(resp'.stack) \in TEMPLATES) =>
            /\ resp'.outcome = "template"
            /\ resp'.result = Template(Lower(resp'.stack))
            /\ StoreUnchanged
            /\ issued' = issued]_vars

C9_Witness ==
    /\ resp.op = "dispatch"
    /\ resp.stack = "Python"
    /\ resp.outcome = "template"
    /\ issued # {}

\* C10: Dispatch of a context whose stack has no template adds exactly one
\* record, pending with null result and error, under an id never issued
\* before; two such calls with the same context give two ids and two records.
C10_DispatchCreatesOnePendingJob ==
    [][/\ (resp'.op = "dispatch" /\ Lower(resp'.stack) \notin TEMPLATES) => resp'.outcome = "job"
       /\ (resp'.op = "dispatch" /\ resp'.outcome = "job") =>
            LET i == resp'.job_id
                added == {loc \in Locations : RecordAt(loc)' # RecordAt(loc)}
            IN  /\ i \notin issued
                /\ issued' = issued \cup {i}
                /\ StoredRecords(i) = {}
                /\ Cardinality(added) = 1
                /\ \A loc \in added :
                     /\ loc[2] = i
                     /\ loc[1] \in {0, resp'.proc}
                     /\ RecordAt(loc)' = NewJobRecord(Context(resp'.stack))
                     /\ RecordAt(loc)'.status = "pending"
                     /\ RecordAt(loc)'.result = None
                     /\ RecordAt(loc)'.error = None]_vars

C10_Witness ==
    /\ resp.op = "dispatch"
    /\ resp.outcome = "job"
    /\ resp.job_id = 2
    /\ issued = {1, 2}
    /\ StoredRecords(1) = {NewJobRecord(Context(resp.stack))}
    /\ StoredRecords(2) = {NewJobRecord(Context(resp.stack))}

\* this step is call c sending an update_job_status, and the arguments it sends
IsUpdate(c) ==
    /\ calls'[c] # calls[c]
    /\ \/ calls[c].pc \in {"mark", "fail"}
       \/ calls[c].pc = "await" /\ resp'.outcome = "success"

UpdateArgs(c) ==
    CASE calls[c].pc = "mark" -> [status |-> "processing", result |-> None, error |-> None]
      [] calls[c].pc = "fail" -> [status |-> "failed", result |-> None, error |-> calls[c].err]
      [] OTHER -> [status |-> "completed", result |-> resp'.result, error |-> None]

\* processes p and q read the same store when the network store is configured
\* and reliable
SameStore(p, q) == p = q \/ redisEnv = "ok"

\* C11: with a reliable store, a Query right after the Dispatch that created
\* a job finds it pending with result null, and a Query right after a Trigger
\* whose generation succeeded with artifacts R finds it completed with
\* result R.
C11_CreateTriggerGet ==
    [][/\ (/\ resp.op = "dispatch" /\ resp.outcome = "job"
           /\ resp'.op = "query" /\ resp'.job_id = resp.job_id
           /\ SameStore(resp.proc, resp'.proc)) =>
                /\ resp'.outcome = "found"
                /\ resp'.status = "pending"
                /\ resp'.result = None
       /\ (/\ resp.op = "trigger" /\ resp.outcome = "success"
           /\ resp'.op = "query" /\ resp'.job_id = resp.job_id
           /\ SameStore(resp.proc, resp'.proc)) =>
                /\ resp'.outcome = "found"
                /\ resp'.status = "completed"
                /\ resp'.result = resp.result
                /\ resp'.result = DevOpsFiles("FROM x")]_vars

C11_Witness ==
    /\ resp.op = "query"
    /\ resp.outcome = "found"
    /\ resp.status = "completed"
    /\ resp.result = DevOpsFiles("FROM x")
    /\ resp.error = None
    /\ invocations[resp.job_id] = 1

C13_UpdateUnknownIsNoOp ==
    [][\A c \in Calls, p \in Procs, i \in JobIds :
          (/\ IsUpdate(c) /\ calls[c].proc = p /\ calls[c].id = i
           /\ StoredRecords(i) = {}) =>
                /\ StoreUnchanged
                /\ BackendRecord(p, i)' = None]_vars

\* C14: Query changes no record, call or counter, and on an id of which
\* no record is visible (never created, or expired) it answers not found.
C14_QueryNotFound ==
    [][/\ resp'.op = "query" =>
            /\ StoreUnchanged
            /\ redis_ttl' = redis_ttl
            /\ calls' = calls
            /\ issued' = issued
            /\ invocations' = invocations
            /\ resp'.outcome \in {"found", "not_found"}
       /\ (resp'.op = "query" /\ resp'.outcome = "not_found") =>
            /\ resp'.code = 404
            /\ resp'.status = ""
            /\ resp'.result = None
       /\ \A p \in Procs, i \in JobIds :
            (resp'.op = "query" /\ resp'.proc = p /\ resp'.job_id = i /\ Views(p, i) = {})
                => resp'.outcome = "not_found"]_vars

C14_Witness ==
    /\ resp.op = "query"
    /\ resp.outcome = "not_found"
    /\ resp.job_id \in issued
    /\ StoredRecords(resp.job_id) = {}
    /\ redis_ttl[resp.job_id] = KeyMissing

\* this step is a handler of process p, and one that calls the job store
Acts(p) ==
    \/ resp'.op # "none" /\ resp'.proc = p
    \/ \E c \in Calls : calls'[c] # calls[c] /\ (calls[c].proc = p \/ calls'[c].proc = p)

StoreCallBy(p) == Acts(p) /\ resp'.outcome \notin {"template", "timeout", "parse_error", "remote_error"}

\* the store call of this step was served by the network store
UsesNetwork(p) ==
    /\ StoreCallBy(p)
    /\ USE_REDIS'[p]
    /\ redis_client'[p] = Client
    /\ faults' = faults

\* the store call of this step met a network failure
NetFailure(p) == Acts(p) /\ faults' # faults

\* C15: once a network operation of a process has failed, no later store
\* call of that process is served by the network store.
C15_NetworkAbandonedAfterFailure ==
    [][\A p \in Procs : failed[p] => ~UsesNetwork(p)]_vars

\* C16: a process builds at most one client: _initialize_redis does not
\* select the backend a second time.
C16_InitializedOnce == \A p \in Procs : connections[p] <= 1

\* C17: a store call that meets a network failure leaves the network store
\* alone, carries out the same operation on the in-process mapping and
\* lets its handler go on as usual.
C17_FailureFallsBack ==
    [][\A p \in Procs : NetFailure(p) =>
          /\ redis_store' = redis_store
          /\ redis_ttl' = redis_ttl
          /\ resp'.op = "dispatch" =>
                /\ resp'.outcome = "job"
                /\ resp'.code = 200
                /\ memory_store'[p][resp'.job_id] = NewJobRecord(Context(resp'.stack))
          /\ resp'.op = "query" =>
                /\ memory_store' = memory_store
                /\ IF memory_store[p][resp'.job_id] = None
                   THEN resp'.outcome = "not_found"
                   ELSE /\ resp'.outcome = "found"
                        /\ resp'.status = memory_store[p][resp'.job_id].status
                        /\ resp'.result = memory_store[p][resp'.job_id].result
                        /\ resp'.error = memory_store[p][resp'.job_id].error
          /\ \A i \in JobIds :
                /\ PassesGuard(p, i) =>
                        memory_store[p][i] # None /\ memory_store[p][i].status = "pending"
                /\ (resp'.op = "trigger" /\ resp'.outcome = "not_found" /\ resp'.job_id = i) =>
                        memory_store[p][i] = None
          /\ \A c \in Calls :
                (IsUpdate(c) /\ calls[c].proc = p) =>
                    LET i == calls[c].id
                        a == UpdateArgs(c)
                    IN  /\ memory_store'[p][i] =
                              IF memory_store[p][i] = None THEN None
                              ELSE UpdateRecord(memory_store[p][i], a.status, a.result, a.error)
                        /\ calls'[c].pc \in {"await", "fail", "idle"}
                        /\ calls[c].pc = "await" => resp'.code = 200]_vars

C17_Witness ==
    /\ resp.op = "dispatch"
    /\ resp.outcome = "job"
    /\ failed[resp.proc]
    /\ USE_REDIS[resp.proc]
    /\ redis_store[resp.job_id] = EmptyHash
    /\ memory_store[resp.proc][resp.job_id] = NewJobRecord(Context(resp.stack))

\* the time-to-live of the record stored at a location
Ttl(loc) == IF loc[1] = 0 THEN redis_ttl[loc[2]] ELSE NoExpiry

\* C18: every write of a record sets the time-to-live of that record to
\* 3600 seconds, in whichever store it lies, and a key whose time-to-live
\* has elapsed holds no record.
C18_WritesRefreshTtl ==
    [][/\ \A loc \in Locations :
            (RecordAt(loc)' # None /\ RecordAt(loc)' # RecordAt(loc)) => Ttl(loc)' = TTL
       /\ \A i \in JobIds :
            redis_ttl'[i] = KeyMissing => RecordAt(<<0, i>>)' = None]_vars

\* C19: every Query that finds a job answers with the status, result and
\* error of one stored record, all three from the same record, also while
\* a Trigger call on that job is between two of its store commands.
C19_QuerySeesOneRecord ==
    [][(resp'.op = "query" /\ resp'.outcome = "found") =>
          \E r \in Views(resp'.proc, resp'.job_id) :
              /\ r.status = resp'.status
              /\ r.result = resp'.result
              /\ r.error = resp'.error]_vars

C19_Witness ==
    /\ resp.op = "query"
    /\ resp.outcome = "found"
    /\ resp.status = "failed"
    /\ resp.error # None
    /\ \E c \in Calls : calls[c].id = resp.job_id /\ calls[c].pc = "fail" /\ calls[c].proc # resp.proc

\* the records that this step changed
Changed == {loc \in Locations : RecordAt(loc)' # RecordAt(loc)}

\* C20: a step that sends an update changes at most one record, that of
\* its job in its own backend, and the record afterwards is the record
\* before with exactly the fields of this one call written: the updates
\* of concurrent calls apply one after the other and the last one wins.
C20_UpdatesSerialized ==
    [][\A c \in Calls : IsUpdate(c) =>
          LET a == UpdateArgs(c) IN
          /\ Cardinality(Changed) <= 1
          /\ \A loc \in Changed :
                /\ loc[2] = calls[c].id
                /\ loc[1] \in {0, calls[c].proc}
                /\ RecordAt(loc)' =
                      IF RecordAt(loc) = None
                      THEN ParseHash(UpdateHash(a.status, a.result, a.error))
                      ELSE UpdateRecord(RecordAt(loc), a.status, a.result, a.error)]_vars

C20_Witness ==
    /\ \E i \in JobIds :
          /\ RecordAt(<<0, i>>) # None
          /\ RecordAt(<<0, i>>).status = "processing"
          /\ RecordAt(<<0, i>>).result = DevOpsFiles("FROM x")
          /\ RecordAt(<<0, i>>).context # EmptyDict
          /\ invocations[i] = 2

\* the job ids this step operates on
OpIds ==
    {resp'.job_id} \cup {calls[c].id : c \in {b \in Calls : calls'[b] # calls[b]}}
                  \cup {calls'[c].id : c \in {b \in Calls : calls'[b] # calls[b]}}

JobChanged(i) ==
    \/ redis_store'[i] # redis_store[i]
    \/ redis_ttl'[i] # redis_ttl[i]
    \/ \E p \in Procs : memory_store'[p][i] # memory_store[p][i]

\* C21: a step of a handler changes the record, in any store, of no job
\* other than the one it operates on, and no step changes two jobs.
C21_OtherJobsUntouched ==
    [][/\ (\E p \in Procs : Acts(p)) => \A i \in JobIds \ OpIds : ~JobChanged(i)
       /\ Cardinality({i \in JobIds : JobChanged(i)}) <= 1]_vars

C21_Witness ==
    /\ resp.op = "trigger"
    /\ resp.outcome = "success"
    /\ resp.job_id = 2
    /\ redisEnv = "ok"
    /\ RecordAt(<<0, 2>>) # None
    /\ RecordAt(<<0, 2>>).status = "completed"
    /\ RecordAt(<<0, 1>>) = NewJobRecord(Context("custom"))
    /\ redis_ttl[1] = TTL

\* C22: a record keeps its context as long as it exists, and a record
\* that appears is the one a Dispatch made, with the context of that
\* Dispatch.
C22_ContextNeverChanges ==
    [][\A loc \in Locations :
          RecordAt(loc)' # None =>
              IF RecordAt(loc) # None
              THEN RecordAt(loc)'.context = RecordAt(loc).context
              ELSE /\ resp'.op = "dispatch"
                   /\ resp'.job_id = loc[2]
                   /\ RecordAt(loc)'.context = Context(resp'.stack)]_vars

\* what went wrong in the generation step: the call hung, the call raised,
\* or the text it returned did not give the artifacts
Cause(reply) ==
    CASE reply.kind = "hang" -> "timeout"
      [] reply.kind = "raise" -> "remote"
      [] OTHER -> "parse"

\* C23: the failure a Trigger caller is given tells the kind of failure:
\* no failure of another kind (timeout, parse failure, failure of the remote
\* call) gives the same status code and message.
C23_FailureKindsDistinct ==
    (resp.op = "trigger" /\ resp.reply # NoReply /\ resp.outcome # "success") =>
        \A r \in Replies :
            (LLMOutcome(r).kind # "success" /\ Cause(r) # Cause(resp.reply)) =>
                <<LLMOutcome(r).code, LLMOutcome(r).detail>> # <<resp.code, resp.error>>

\* C24: without the credential no call ever waits for the remote model,
\* and a Trigger that gets as far as the generation step is answered 500
\* with the configuration error.
C24_NoCredentialNoRemoteCall ==
    /\ llmEnv = "no_key" =>
            /\ \A c \in Calls : calls[c].pc # "await"
            /\ resp.op = "trigger" =>
                    /\ resp.reply = NoReply
                    /\ resp.outcome \in {"not_found", "already", "no_credential", "exception"}
    /\ (resp.op = "trigger" /\ resp.outcome = "no_credential") =>
            /\ llmEnv = "no_key"
            /\ resp.code = 500
            /\ resp.error = NoKeyDetail

C24_Witness ==
    /\ llmEnv = "no_key"
    /\ resp.op = "trigger"
    /\ resp.outcome = "no_credential"
    /\ invocations[resp.job_id] = 1
    /\ \E r \in Views(resp.proc, resp.job_id) : r.status = "processing"

\* C25: a Trigger call that waits for the remote model eventually returns,
\* also when the model never answers, and the call that stopped waiting at
\* the timeout is answered 504 with the timeout failure.
C25_TriggerReturnsOnTimeout ==
    /\ \A c \in Calls : (calls[c].pc = "await") ~> (calls[c].pc # "await")
    /\ [](resp.reply = Hang =>
            /\ resp.op = "trigger"
            /\ resp.outcome = "timeout"
            /\ resp.code = 504
            /\ resp.error = TimeoutDetail)

C25_Witness ==
    /\ resp.op = "trigger"
    /\ resp.reply = Hang
    /\ resp.outcome = "timeout"
    /\ \A c \in Calls : calls[c].pc \in {"idle", "abandoned"}

\* C26: GET / is answered 200 with an HTML body.
C26_RootReturnsHtml ==
    resp.op = "root" => (resp.code = 200 /\ resp.content_type = "text/html")

\* C27: with a reliable store, the step in which a Trigger call starts to
\* wait for the generation step is the step that wrote processing, the
\* generation step is invoked in no other step, and a call writes a
\* terminal status only when it leaves the generation step: completed when
\* the answer has arrived, failed from the except branch.
C27_ProcessingGenerationTerminal ==
    [][\A c \in Calls, p \in Procs, i \in JobIds :
          /\ (calls'[c].pc = "await" /\ calls[c].pc # "await" /\ calls'[c].proc = p /\ calls'[c].id = i) =>
                /\ calls[c].pc = "mark"
                /\ BackendRecord(p, i)' # None
                /\ BackendRecord(p, i)'.status = "processing"
          /\ (invocations'[i] # invocations[i] /\ calls'[c] # calls[c] /\ calls[c].proc = p) =>
                /\ calls[c].pc = "mark"
                /\ calls[c].id = i
                /\ BackendRecord(p, i)' # None
                /\ BackendRecord(p, i)'.status = "processing"
          /\ (IsUpdate(c) /\ UpdateArgs(c).status \in Terminal) =>
                /\ calls[c].pc \in {"await", "fail"}
                /\ calls'[c].pc = "idle"
          /\ (IsUpdate(c) /\ UpdateArgs(c).status = "completed") =>
                /\ calls[c].pc = "await"
                /\ resp'.reply.kind = "text"]_vars

C27_Witness ==
    /\ resp.op = "trigger"
    /\ resp.outcome = "success"
    /\ invocations[resp.job_id] = 1
    /\ BackendRecord(resp.proc, resp.job_id).status = "completed"
    /\ \E c \in Calls : /\ calls[c].pc = "await"
                        /\ calls[c].id # resp.job_id
                        /\ BackendRecord(calls[c].proc, calls[c].id).status = "processing"

FailureOutcomes == {"timeout", "parse_error", "remote_error", "no_credential", "exception"}

\* C28: a Trigger whose generation step failed is answered with an error
\* status and the failure message, never with success: success is answered
\* only when the model's text gave the artifacts.
C28_FailureResignalled ==
    /\ (resp.op = "trigger" /\ resp.outcome \in FailureOutcomes) =>
            /\ resp.code \in {500, 504}
            /\ resp.error # None
            /\ resp.result = None
    /\ (resp.op = "trigger" /\ resp.reply # NoReply
            /\ (resp.reply.kind # "text" \/ StripFences(resp.reply.text) # <<JsonObject>>)) =>
            /\ resp.outcome \in FailureOutcomes
            /\ resp.code >= 400
    /\ (resp.op = "trigger" /\ resp.code = 200 /\ resp.outcome # "already") =>
            /\ resp.outcome = "success"
            /\ resp.reply.kind = "text"
            /\ StripFences(resp.reply.text) = <<JsonObject>>

C28_Witness ==
    /\ resp.op = "trigger"
    /\ resp.outcome = "parse_error"
    /\ resp.code = 500
    /\ resp.reply.text = <<"Here you go", FenceJson, JsonObject, Fence>>

\* C29: an update that the backend carries out leaves the record with the
\* status it was called with, whatever the status before: there is no
\* check of the transition.
C29_UpdateUnconditional ==
    [][\A c \in Calls, p \in Procs, i \in JobIds :
          (/\ IsUpdate(c) /\ calls[c].proc = p /\ calls[c].id = i
           /\ faults' = faults
           /\ BackendRecord(p, i) # None) =>
                /\ BackendRecord(p, i)' # None
                /\ BackendRecord(p, i)'.status = UpdateArgs(c).status]_vars

C29_Witness ==
    \E loc \in Locations :
        /\ RecordAt(loc) # None
        /\ RecordAt(loc).status = "processing"
        /\ RecordAt(loc).error # None

\* the connectivity check of the last initialization of process p failed
InitFailed(p) == redisEnv = "ok" /\ failed[p] /\ redis_client[p] = NoClient

\* C30: a process without a configured network store, and a process
\* whose connectivity check failed, serves no store call from the network
\* store.
C30_MemoryOnlyWhenUnconfigured ==
    [][\A p \in Procs : (redisEnv = "unset" \/ InitFailed(p)) => ~UsesNetwork(p)]_vars

\* C31: with the network store configured, a job that was created and has
\* not expired is never reported as not found, whatever network failures
\* lie between the calls.
C31_CreatedJobIsFound ==
    [][(/\ redisEnv = "ok"
        /\ resp'.op \in {"query", "trigger"}
        /\ StoredRecords(resp'.job_id) # {}) => resp'.outcome # "not_found"]_vars

\* C32: when a Trigger call reports success, a record of the job that the
\* process can read is completed with the result that was generated.
C32_SuccessMeansStored ==
    (resp.op = "trigger" /\ resp.outcome = "success") =>
        \E r \in Views(resp.proc, resp.job_id) : r.status = "completed" /\ r.result = resp.result

\* C34: a record appears only in the step of the Dispatch that created
\* its job, as the record create_job writes: no other step adds a record.
C34_OnlyCreateAddsRecords ==
    [][\A loc \in Locations :
          (RecordAt(loc) = None /\ RecordAt(loc)' # None) =>
              /\ resp'.op = "dispatch"
              /\ resp'.outcome = "job"
              /\ resp'.job_id = loc[2]
              /\ RecordAt(loc)' = NewJobRecord(Context(resp'.stack))]_vars

\* C33: when the wait for the remote model has timed out, the call that was
\* given up on goes on in its thread; whenever it ends, with an answer or with
\* an exception, the network store, its times to live and the in-process
\* mappings are left as they were: its answer never reaches the job store.
C33_AbandonedCallWritesNothing ==
    [][resp'.op = "thread_end" => UNCHANGED <<redis_store, redis_ttl, memory_store>>]_vars

\* an abandoned call has just ended with the JSON object the handler was
\* waiting for, and a job of its process is still stored as processing
C33_Witness ==
    /\ resp.op = "thread_end"
    /\ resp.outcome = "success"
    /\ \E i \in JobIds :
        /\ Views(resp.proc, i) # {}
        /\ \A r \in Views(resp.proc, i) : r.status = "processing" /\ r.result = None

\* C36: a POST / whose template lookup raised is not answered with a
\* failure: it is answered 200 with the id of a new job and status pending.
C36_LookupErrorStillCreatesJob ==
    (resp.op = "dispatch" /\ Unavailable) =>
        /\ resp.code = 200
        /\ resp.outcome = "job"
        /\ resp.status = "pending"

\* C37: every invocation of handler returns a response with a status code
\* and raises nothing; when the web framework was not imported, an event
\* whose path is / or /health is answered 200 and an event with any other
\* path is answered 503.
C37_HandlerAlwaysAnswers ==
    resp.op = "handler" =>
        /\ resp.outcome = "return"
        /\ resp.code \in {200, 404, 500, 503}
        /\ (FALLBACK_MODE /\ EventPath(resp.event) # Raise) =>
              resp.code = IF EventPath(resp.event) \in {"/", "/health"} THEN 200 ELSE 503
        /\ (FALLBACK_MODE /\ resp.event.kind = "dict" /\ resp.event.rawPath \in EventPaths) =>
              resp.code = IF resp.event.rawPath = "/job/1" THEN 503 ELSE 200

\* without the web framework, a request for a job was just answered 503
C37_Witness ==
    /\ FALLBACK_MODE
    /\ resp.op = "handler"
    /\ resp.event.kind = "dict"
    /\ resp.event.rawPath = "/job/1"
    /\ resp.outcome = "return"
    /\ resp.code = 503

\* C35: the in-process lock is held only by a thread that is inside the
\* with block of create_job, get_job or update_job_status, so it is free
\* again on every way out of the three functions, the early return of
\* update_job_status for an unknown id included; and every thread that
\* waits for the lock gets through its store operation.
C35_LockAlwaysReleased ==
    /\ [](\A t \in Threads : memory_lock = t => threads[t].pc \in {"locked", "exit"})
    /\ []((\A t \in Threads : threads[t].pc \in {"idle", "acquire"}) => memory_lock = 0)
    /\ \A t \in Threads : (threads[t].pc = "acquire") ~> (threads[t].pc = "idle")

\* update_job_status has just returned early for an unknown id, the lock is
\* free, and another thread is waiting for it
C35_Witness ==
    /\ resp.op = "update_job_status"
    /\ resp.outcome = "return"
    /\ memory_store[LockProc][resp.job_id] = None
    /\ memory_lock = 0
    /\ \E t \in Threads : threads[t].pc = "acquire"

====
